---- MODULE Spec2Model ----
(***************************************************************************)
(* Model of the browser front end of the number plate recognition system   *)
(* (static/js/script.js): the page's DOM state, the two module globals     *)
(* cameraStream and detectionHistory, localStorage, and the asynchronous   *)
(* handlers uploadImage, captureFromWebcam, initializeWebcam with their    *)
(* awaits as separate steps.                                               *)
(***************************************************************************)
EXTENDS Integers, Sequences, FiniteSets, TLC

\* ------------------------------------------------------------------ bounds
\* Number of detections (uploadImage / captureFromWebcam past their guard)
\* started since the model's first state, which is the reading of the clock.
MaxClock == 1
\* Number of camera streams whose tracks are running at the same time.
MaxStreams == 1
\* The same two numbers in the specification of overlapping detections and
\* camera streams.
MaxOverlap == 2
MaxOverlapStreams == 2

\* ------------------------------------------------------- program constants
\* detectionHistory.length > 10 / slice(0, 10)
HistoryLimit == 10

\* ------------------------------------------------------------ JS values
\* A numeric field that is undefined (the key is missing from the JSON body).
Undefined == -1
\* cameraStream = null
Null == 0

\* Texts of the plateNumber element, their leading emoji written as X and !.
WaitingText == "Waiting for detection..."
DetectingText == "Detecting..."
ProcessingText == "Processing..."
NoPlateText == "X No plate detected"
ProcessingErrorText == "! Processing Error!"
CaptureFailedText == "! Capture failed!"

\* number_plate values a response body can carry: missing (undefined),
\* empty, the server's sentinel, or a recognised plate.
MissingPlate == "undefined"
EmptyPlate == ""
Sentinel == "No plate detected"
Plates == {"KA01AB1234", "MH12DE1433"}

\* confidence is a number in [0,1]; the model holds it in ten-thousandths
\* (8750 is 0.875), so that (confidence * 100).toFixed(2) is exact.
Bodies ==
    {[number_plate |-> p, confidence |-> Undefined] :
        p \in {MissingPlate, EmptyPlate, Sentinel}}
    \cup {[number_plate |-> "KA01AB1234", confidence |-> c] : c \in {Undefined, 0, 10000}}
    \cup {[number_plate |-> "MH12DE1433", confidence |-> 8750]}

\* Math.round(endTime - startTime), in milliseconds.
ProcessTimes == {120}

\* Button labels (innerHTML).
DetectLabel == "Detect Plate"
DetectLoadingLabel == "Processing..."
CaptureLabel == "Capture & Detect"
CaptureLoadingLabel == "Capturing..."
StartCameraLabel == "Start Camera"
StartingLabel == "Starting..."

\* Notifications: type and message of the most recent showNotification
\* call, the messages without their emoji.
NoNotification == [type |-> "none", message |-> ""]
ChooseImageWarning == [type |-> "warning", message |-> "Please choose an image first!"]
EnableCameraWarning == [type |-> "warning", message |-> "Please enable camera first!"]
UploadSuccess == [type |-> "success", message |-> "Number plate detected successfully!"]
CaptureSuccess == [type |-> "success", message |-> "Number plate detected from camera!"]
NoPlateError == [type |-> "error", message |-> "No number plate found in the image"]
UploadFailed == [type |-> "error", message |-> "Failed to process image. Please try again."]
CaptureFailed == [type |-> "error", message |-> "Failed to capture image"]
CameraActivated == [type |-> "success", message |-> "Camera activated successfully!"]
CameraDenied == [type |-> "error", message |-> "Camera access denied or not available"]
CameraOff == [type |-> "info", message |-> "Camera turned off"]
Downloaded == [type |-> "success", message |-> "Result downloaded successfully!"]
NothingToDownload == [type |-> "warning", message |-> "No valid result to download!"]
Cleared == [type |-> "info", message |-> "All inputs and results cleared!"]

NoFile == "(no file)"

VARIABLES
    cameraStream,       \* Null or the id of the stream held by the global
    liveStreams,        \* ids of the acquired streams whose tracks still run
    cameraPending,      \* a getUserMedia call of initializeWebcam is pending
    detectionHistory,   \* the global array, newest first
    localStorage,       \* the item 'anprHistory'
    historyList,        \* what loadDetectionHistory rendered
    fileSelected,       \* fileInput.files.length > 0
    readerPending,      \* a FileReader onload of previewImage is pending
    plateNumber,        \* [text, detected]: textContent and the class
    confidence,         \* textContent of the confidence element
    processingTime,     \* textContent of the processingTime element
    resultDetails,      \* resultDetails.style.display = 'block'
    downloadBtn,        \* [disabled]
    detectBtn,          \* [disabled, label]
    captureBtn,         \* [disabled, label]
    stopCameraBtn,      \* [disabled]
    startCameraBtn,     \* [disabled, label]
    cameraOverlay,      \* [shown]: cameraOverlay.style.display is not 'none'
    requests,           \* the detections in flight, in the order they started
    notification,       \* the most recent notification
    downloadedFile,     \* plate text of the most recent file written
    clock,              \* detections started so far
    latest              \* what the most recently started detection displayed,
                        \* kept while detections started before it are in flight

camera == <<cameraStream, liveStreams, cameraPending, stopCameraBtn,
            startCameraBtn, cameraOverlay>>
history == <<detectionHistory, localStorage, historyList>>
fileInput == <<fileSelected, readerPending>>
result == <<plateNumber, confidence, processingTime, resultDetails, downloadBtn>>
vars == <<camera, history, fileInput, result, detectBtn, captureBtn, requests,
          notification, downloadedFile, clock, latest>>

\* ------------------------------------------------------------ localStorage
\* JSON.stringify of one history item: a key whose value is undefined is
\* left out of the object.
StoredItem(item) ==
    IF item.confidence = Undefined
    THEN [plate |-> item.plate, processTime |-> item.processTime,
          timestamp |-> item.timestamp]
    ELSE [plate |-> item.plate, confidence |-> item.confidence,
          processTime |-> item.processTime, timestamp |-> item.timestamp]

\* JSON.stringify(detectionHistory)
JSONstringify(h) ==
    [present |-> TRUE, items |-> [i \in 1..Len(h) |-> StoredItem(h[i])]]

\* JSON.parse of one stored item; reading a key that is not there gives
\* undefined.
ParsedItem(stored) ==
    [plate |-> stored.plate,
     confidence |-> IF "confidence" \in DOMAIN stored THEN stored.confidence
                    ELSE Undefined,
     processTime |-> stored.processTime,
     timestamp |-> stored.timestamp]

\* localStorage.getItem('anprHistory') of a browser that never saved.
NoItem == [present |-> FALSE, items |-> <<>>]

\* JSON.parse(localStorage.getItem('anprHistory')) || []
JSONparseOrEmpty(item) ==
    IF item.present
    THEN [i \in 1..Len(item.items) |-> ParsedItem(item.items[i])]
    ELSE <<>>

\* What earlier visits of the page left in localStorage: n detections.
EarlierHistory(n) ==
    [i \in 1..n |->
        [plate |-> IF i % 2 = 0 THEN "KA01AB1234" ELSE "MH12DE1433",
         confidence |-> IF i % 3 = 0 THEN Undefined ELSE 8750,
         processTime |-> 100 + (n - i),
         timestamp |-> 0]]

\* loadDetectionHistory: the rendered list, empty for the "No detection
\* history yet" paragraph.
loadDetectionHistory(h) ==
    [i \in 1..Len(h) |-> [plate |-> h[i].plate, time |-> h[i].timestamp]]

\* A slip of addToHistory: push for unshift.
UnshiftMutant(h, item) == Append(h, item)

\* detectionHistory.unshift(historyItem)
Unshift(h, item) == <<item>> \o h

\* if (detectionHistory.length > 10) detectionHistory = detectionHistory.slice(0, 10)
KeepLast(h) ==
    IF Len(h) > HistoryLimit THEN SubSeq(h, 1, HistoryLimit) ELSE h

\* A slip of addToHistory: the array is saved before it is changed.
SavedMutant(before, after) == JSONstringify(before)

\* The value written by localStorage.setItem('anprHistory', ...) in
\* addToHistory, given the array before the call and the array after it.
Saved(before, after) == JSONstringify(after)

\* addToHistory(plate, confidence, processTime), the timestamp being the
\* clock's reading.
addToHistory(plate, conf, processTime) ==
    LET historyItem == [plate |-> plate, confidence |-> conf,
                        processTime |-> processTime, timestamp |-> clock]
        after == KeepLast(Unshift(detectionHistory, historyItem))
    IN /\ detectionHistory' = after
       /\ localStorage' = Saved(detectionHistory, after)
       /\ historyList' = loadDetectionHistory(after)

\* --------------------------------------------------------------- the page
InitialDisplay ==
    [text |-> WaitingText, detected |-> FALSE, details |-> FALSE, download |-> FALSE]

\* No detection that started while others were in flight has settled before
\* them.
NoLatest == [settled |-> FALSE, display |-> InitialDisplay]

\* The items localStorage can hold when the page loads: none, or a full
\* history.
EarlierItems == {NoItem, JSONstringify(EarlierHistory(HistoryLimit))}

\* The page after it loaded and DOMContentLoaded ran.
Loaded(item) ==
    /\ cameraStream = Null
    /\ liveStreams = {}
    /\ cameraPending = FALSE
    /\ localStorage = item
    /\ detectionHistory = JSONparseOrEmpty(item)
    /\ historyList = loadDetectionHistory(JSONparseOrEmpty(item))
    /\ fileSelected = FALSE
    /\ readerPending = FALSE
    /\ plateNumber = [text |-> WaitingText, detected |-> FALSE]
    /\ confidence = [kind |-> "html", whole |-> 0, cents |-> 0]
    /\ processingTime = 0
    /\ resultDetails = FALSE
    /\ downloadBtn = [disabled |-> TRUE]
    /\ detectBtn = [disabled |-> TRUE, label |-> DetectLabel]
    /\ captureBtn = [disabled |-> TRUE, label |-> CaptureLabel]
    /\ stopCameraBtn = [disabled |-> TRUE]
    /\ startCameraBtn = [disabled |-> FALSE, label |-> StartCameraLabel]
    /\ cameraOverlay = [shown |-> TRUE]
    /\ requests = <<>>
    /\ notification = NoNotification
    /\ downloadedFile = NoFile
    /\ latest = NoLatest

Init ==
    /\ clock = 0
    /\ \E item \in EarlierItems : Loaded(item)

\* showNotification(message, type)
showNotification(n) == notification' = n

\* ---------------------------------------------------------- previewImage
\* The change handler of the file input, with a file chosen: the Detect
\* button (and the preview image, which nothing reads) waits for the
\* FileReader.
previewImageFile ==
    /\ fileSelected' = TRUE
    /\ readerPending' = TRUE
    /\ UNCHANGED detectBtn
    /\ UNCHANGED <<camera, history, result, captureBtn, requests, notification,
                   downloadedFile, clock, latest>>

\* The change handler with the selection emptied (the dialog was cancelled).
previewImageNoFile ==
    /\ fileSelected' = FALSE
    /\ detectBtn' = [detectBtn EXCEPT !.disabled = TRUE]
    /\ UNCHANGED readerPending
    /\ UNCHANGED <<camera, history, result, captureBtn, requests, notification,
                   downloadedFile, clock, latest>>

\* reader.onload
readerOnload ==
    /\ readerPending
    /\ readerPending' = FALSE
    /\ detectBtn' = [detectBtn EXCEPT !.disabled = FALSE]
    /\ UNCHANGED fileSelected
    /\ UNCHANGED <<camera, history, result, captureBtn, requests, notification,
                   downloadedFile, clock, latest>>

\* ---------------------------------------------------------------- clearAll
clearAll ==
    /\ fileSelected' = FALSE
    /\ plateNumber' = [text |-> WaitingText, detected |-> FALSE]
    /\ resultDetails' = FALSE
    /\ downloadBtn' = [disabled |-> TRUE]
    /\ detectBtn' = [detectBtn EXCEPT !.disabled = TRUE]
    /\ showNotification(Cleared)
    /\ UNCHANGED <<readerPending, confidence, processingTime>>
    /\ UNCHANGED <<camera, history, captureBtn, requests, downloadedFile, clock, latest>>

\* ---------------------------------------------------------- downloadResult
\* plateText.includes(word), for the texts the plate display can hold.
Includes(text, word) ==
    \/ text = WaitingText /\ word = "Waiting"
    \/ text = DetectingText /\ word = "Detecting"
    \/ text = NoPlateText /\ word = "No plate"
    \/ text = ProcessingErrorText /\ word = "Error"

\* The condition of downloadResult on the plate text.
HasResult(plateText) ==
    /\ plateText # ""
    /\ ~Includes(plateText, "Waiting")
    /\ ~Includes(plateText, "No plate")
    /\ ~Includes(plateText, "Detecting")
    /\ ~Includes(plateText, "Error")

\* The click handler of the Download button.
downloadResult ==
    /\ ~downloadBtn.disabled
    /\ IF HasResult(plateNumber.text)
       THEN /\ downloadedFile' = plateNumber.text
            /\ showNotification(Downloaded)
       ELSE /\ showNotification(NothingToDownload)
            /\ UNCHANGED downloadedFile
    /\ UNCHANGED <<camera, history, fileInput, result, detectBtn, captureBtn,
                   requests, clock, latest>>

\* -------------------------------------------------------- initializeWebcam
\* The click handler of the Start Camera button, up to its await.
initializeWebcam ==
    /\ ~startCameraBtn.disabled
    /\ startCameraBtn' = [disabled |-> TRUE, label |-> StartingLabel]
    /\ cameraPending' = TRUE
    /\ UNCHANGED <<cameraStream, liveStreams, stopCameraBtn, cameraOverlay>>
    /\ UNCHANGED <<history, fileInput, result, detectBtn, captureBtn, requests,
                   notification, downloadedFile, clock, latest>>

\* A stream object no live stream and no reference shares.
NewStream ==
    CHOOSE id \in 1..(Cardinality(liveStreams) + 1) : id \notin liveStreams

\* getUserMedia resolved with a new stream.
getUserMediaResolved(streams) ==
    /\ cameraPending
    /\ Cardinality(liveStreams) < streams
    /\ cameraStream' = NewStream
    /\ liveStreams' = liveStreams \cup {NewStream}
    /\ cameraOverlay' = [cameraOverlay EXCEPT !.shown = FALSE]
    /\ captureBtn' = [captureBtn EXCEPT !.disabled = FALSE]
    /\ stopCameraBtn' = [disabled |-> FALSE]
    /\ showNotification(CameraActivated)
    /\ startCameraBtn' = [disabled |-> FALSE, label |-> StartCameraLabel]
    /\ cameraPending' = FALSE
    /\ UNCHANGED <<history, fileInput, result, detectBtn, requests,
                   downloadedFile, clock, latest>>

\* getUserMedia rejected (access denied, no camera).
getUserMediaRejected ==
    /\ cameraPending
    /\ showNotification(CameraDenied)
    /\ startCameraBtn' = [disabled |-> FALSE, label |-> StartCameraLabel]
    /\ cameraPending' = FALSE
    /\ UNCHANGED <<cameraStream, liveStreams, stopCameraBtn, cameraOverlay>>
    /\ UNCHANGED <<history, fileInput, result, detectBtn, captureBtn, requests,
                   downloadedFile, clock, latest>>

\* -------------------------------------------------------------- stopWebcam
\* The click handler of the Stop Camera button.
stopWebcam ==
    /\ ~stopCameraBtn.disabled
    /\ IF cameraStream # Null
       THEN /\ liveStreams' = liveStreams \ {cameraStream}
            /\ cameraStream' = Null
            /\ cameraOverlay' = [shown |-> TRUE]
            /\ captureBtn' = [captureBtn EXCEPT !.disabled = TRUE]
            /\ stopCameraBtn' = [disabled |-> TRUE]
            /\ showNotification(CameraOff)
       ELSE UNCHANGED <<liveStreams, cameraStream, cameraOverlay, captureBtn,
                        stopCameraBtn, notification>>
    /\ UNCHANGED <<cameraPending, startCameraBtn>>
    /\ UNCHANGED <<history, fileInput, result, detectBtn, requests,
                   downloadedFile, clock, latest>>

\* beforeunload runs stopWebcam and the page is loaded again: the document's
\* tracks, requests and callbacks end with it, localStorage stays.
pageReload ==
    /\ cameraStream' = Null
    /\ liveStreams' = {}
    /\ cameraPending' = FALSE
    /\ detectionHistory' = JSONparseOrEmpty(localStorage)
    /\ historyList' = loadDetectionHistory(JSONparseOrEmpty(localStorage))
    /\ fileSelected' = FALSE
    /\ readerPending' = FALSE
    /\ plateNumber' = [text |-> WaitingText, detected |-> FALSE]
    /\ confidence' = [kind |-> "html", whole |-> 0, cents |-> 0]
    /\ processingTime' = 0
    /\ resultDetails' = FALSE
    /\ downloadBtn' = [disabled |-> TRUE]
    /\ detectBtn' = [disabled |-> TRUE, label |-> DetectLabel]
    /\ captureBtn' = [disabled |-> TRUE, label |-> CaptureLabel]
    /\ stopCameraBtn' = [disabled |-> TRUE]
    /\ startCameraBtn' = [disabled |-> FALSE, label |-> StartCameraLabel]
    /\ cameraOverlay' = [shown |-> TRUE]
    /\ requests' = <<>>
    /\ notification' = NoNotification
    /\ latest' = NoLatest
    /\ UNCHANGED <<localStorage, downloadedFile, clock>>

\* ------------------------------------------------- the detection handlers
\* A slip of uploadImage: the guard never fires.
NoFileChosenMutant == FALSE

\* !fileInput.files.length
NoFileChosen == ~fileSelected

\* !cameraStream
NoCamera == cameraStream = Null

\* The loading state both handlers show before their try block.
ShowLoading(text) ==
    /\ plateNumber' = [text |-> text, detected |-> FALSE]
    /\ resultDetails' = FALSE
    /\ UNCHANGED <<confidence, processingTime, downloadBtn>>

\* A detection enters flight: the handler has run up to its first await. The
\* handler writes nothing between its awaits (toBlob, fetch, res.json()), so
\* they are taken in one step, when the last of them settles.
Start(kind, originalText, budget) ==
    /\ clock < budget
    /\ clock' = clock + 1
    /\ requests' = Append(requests, [kind |-> kind,
                                     originalText |-> originalText])
    /\ latest' = NoLatest

\* uploadImage, the click handler of the Detect button, up to its await.
uploadImage(budget) ==
    /\ ~detectBtn.disabled
    /\ IF NoFileChosen
       THEN /\ showNotification(ChooseImageWarning)
            /\ UNCHANGED <<result, detectBtn, requests, clock, latest>>
       ELSE /\ Start("upload", detectBtn.label, budget)
            /\ detectBtn' = [disabled |-> TRUE, label |-> DetectLoadingLabel]
            /\ ShowLoading(DetectingText)
            /\ UNCHANGED notification
    /\ UNCHANGED <<camera, history, fileInput, captureBtn, downloadedFile>>

\* captureFromWebcam, the click handler of the Capture button, up to its
\* first await.
captureFromWebcam(budget) ==
    /\ ~captureBtn.disabled
    /\ IF NoCamera
       THEN /\ showNotification(EnableCameraWarning)
            /\ UNCHANGED <<result, captureBtn, requests, clock, latest>>
       ELSE /\ Start("capture", captureBtn.label, budget)
            /\ captureBtn' = [disabled |-> TRUE, label |-> CaptureLoadingLabel]
            /\ ShowLoading(ProcessingText)
            /\ UNCHANGED notification
    /\ UNCHANGED <<camera, history, fileInput, detectBtn, downloadedFile>>

\* A slip of the handlers: the sentinel is not compared.
HasPlateMutant(data) == data.number_plate \notin {MissingPlate, EmptyPlate}

\* data.number_plate && data.number_plate !== "No plate detected"
HasPlate(data) ==
    /\ data.number_plate \notin {MissingPlate, EmptyPlate}
    /\ data.number_plate # Sentinel

\* (data.confidence * 100).toFixed(2) + "%", the confidence in ten-thousandths
Percent(c) ==
    [kind |-> "percent", whole |-> (c * 100) \div 10000,
     cents |-> ((c * 100) % 10000) \div 100]

NotAvailable == [kind |-> "N/A", whole |-> 0, cents |-> 0]

\* data.confidence ? `${(data.confidence * 100).toFixed(2)}%` : 'N/A'
ConfidenceText(c) ==
    IF c # Undefined /\ c # 0 THEN Percent(c) ELSE NotAvailable

\* if (!res.ok) throw ..., which only uploadImage has.
ThrowsOnStatus(kind, ok) == kind = "upload" /\ ~ok

\* A slip of the finally block: the button is not enabled again.
ResetButtonMutant(btn, originalText) == [btn EXCEPT !.label = originalText]

\* finally: btn.innerHTML = originalText; btn.disabled = false
ResetButton(btn, originalText) == [disabled |-> FALSE, label |-> originalText]

\* The handler of request i returns: its finally block runs and the request
\* leaves flight.
Finally(i) ==
    /\ requests' = [j \in 1..(Len(requests) - 1) |->
                        IF j < i THEN requests[j] ELSE requests[j + 1]]
    /\ IF requests[i].kind = "upload"
       THEN /\ detectBtn' = ResetButton(detectBtn, requests[i].originalText)
            /\ UNCHANGED captureBtn
       ELSE /\ captureBtn' = ResetButton(captureBtn, requests[i].originalText)
            /\ UNCHANGED detectBtn
    /\ latest' = IF Len(requests) = 1 THEN NoLatest
                 ELSE IF i = Len(requests) /\ ~latest.settled
                 THEN [settled |-> TRUE,
                       display |-> [text |-> plateNumber'.text,
                                    detected |-> plateNumber'.detected,
                                    details |-> resultDetails',
                                    download |-> ~downloadBtn'.disabled]]
                 ELSE latest
    /\ UNCHANGED <<camera, fileInput, downloadedFile, clock>>

\* The branch of a response that carries a plate.
Detected(i, data, processTime) ==
    /\ plateNumber' = [text |-> data.number_plate, detected |-> TRUE]
    /\ confidence' = ConfidenceText(data.confidence)
    /\ processingTime' = processTime
    /\ resultDetails' = TRUE
    /\ downloadBtn' = [disabled |-> FALSE]
    /\ addToHistory(data.number_plate, data.confidence, processTime)
    /\ showNotification(IF requests[i].kind = "upload" THEN UploadSuccess
                        ELSE CaptureSuccess)

\* The else branch: no plate in the response.
NotDetected ==
    /\ plateNumber' = [text |-> NoPlateText, detected |-> FALSE]
    /\ resultDetails' = FALSE
    /\ downloadBtn' = [disabled |-> TRUE]
    /\ showNotification(NoPlateError)
    /\ UNCHANGED <<confidence, processingTime, history>>

\* The catch block of the handler of request i.
Catch(i) ==
    /\ plateNumber' = [text |-> IF requests[i].kind = "upload"
                                THEN ProcessingErrorText ELSE CaptureFailedText,
                       detected |-> FALSE]
    /\ resultDetails' = FALSE
    /\ downloadBtn' = [disabled |-> TRUE]
    /\ showNotification(IF requests[i].kind = "upload" THEN UploadFailed
                        ELSE CaptureFailed)
    /\ UNCHANGED <<confidence, processingTime, history>>

\* Request i is in flight and was started by the given handler.
InFlight(i, kind) == i \in DOMAIN requests /\ requests[i].kind = kind

\* canvas.toBlob called back with null (a canvas without pixels), which
\* formData.append refuses with a TypeError.
toBlobNull(i) ==
    /\ InFlight(i, "capture")
    /\ Catch(i) /\ Finally(i)

\* fetch rejected: the request did not reach the server or no response came.
fetchRejected(i) ==
    /\ i \in DOMAIN requests
    /\ Catch(i) /\ Finally(i)

\* fetch resolved with a response of status ok or not, and res.json()
\* rejected: the body is not JSON.
jsonRejected(i, ok) ==
    /\ i \in DOMAIN requests
    /\ Catch(i) /\ Finally(i)

\* fetch resolved with a response of status ok or not, and res.json()
\* resolved with data; the handler runs to its end.
jsonResolved(i, ok, data, processTime) ==
    /\ i \in DOMAIN requests
    /\ IF ThrowsOnStatus(requests[i].kind, ok) THEN Catch(i)
       ELSE IF HasPlate(data) THEN Detected(i, data, processTime)
       ELSE NotDetected
    /\ Finally(i)

ToBlobNull == \E i \in DOMAIN requests : toBlobNull(i)
FetchRejected == \E i \in DOMAIN requests : fetchRejected(i)
JsonRejected == \E i \in DOMAIN requests, ok \in BOOLEAN : jsonRejected(i, ok)
JsonResolved ==
    \E i \in DOMAIN requests, ok \in BOOLEAN, data \in Bodies,
       processTime \in ProcessTimes :
        jsonResolved(i, ok, data, processTime)

\* ------------------------------------------------------- the specification
NextWithin(budget, streams) ==
    \/ previewImageFile
    \/ previewImageNoFile
    \/ readerOnload
    \/ clearAll
    \/ downloadResult
    \/ initializeWebcam
    \/ getUserMediaResolved(streams)
    \/ getUserMediaRejected
    \/ stopWebcam
    \/ pageReload
    \/ uploadImage(budget)
    \/ captureFromWebcam(budget)
    \/ ToBlobNull
    \/ FetchRejected
    \/ JsonRejected
    \/ JsonResolved

Next == NextWithin(MaxClock, MaxStreams)

Spec == Init /\ [][Next]_vars

\* The same page with detections that overlap in time and a camera that is
\* started again while its stream runs.
NextOverlap == NextWithin(MaxOverlap, MaxOverlapStreams)

OverlapSpec == Init /\ [][NextOverlap]_vars

\* ------------------------------------------------------------- the claims
\* The handler of request i returns, whatever its awaits gave.
Settles(i) ==
    \/ toBlobNull(i)
    \/ fetchRejected(i)
    \/ \E ok \in BOOLEAN : jsonRejected(i, ok)
    \/ \E ok \in BOOLEAN, data \in Bodies, processTime \in ProcessTimes :
           jsonResolved(i, ok, data, processTime)

\* The detected branch ran in this step: its notification is the last call.
ShowsSuccess == notification' \in {UploadSuccess, CaptureSuccess}

NoPlateValues == {MissingPlate, EmptyPlate, Sentinel}

\* What the plate display, the result details and the Download button show.
Display ==
    [text |-> plateNumber.text, detected |-> plateNumber.detected,
     details |-> resultDetails, download |-> ~downloadBtn.disabled]

\* C1: in both handlers a response of status ok whose number_plate is
\* missing, empty or the sentinel "No plate detected" shows the no-plate
\* message without the detected mark, hides the result details, disables
\* the Download button and adds nothing to the history.
C1_NoPlateIsNoDetection ==
    [][\A i \in DOMAIN requests, data \in Bodies, processTime \in ProcessTimes :
          (jsonResolved(i, TRUE, data, processTime)
           /\ data.number_plate \in NoPlateValues)
          => /\ plateNumber' = [text |-> NoPlateText, detected |-> FALSE]
             /\ resultDetails' = FALSE
             /\ downloadBtn'.disabled
             /\ detectionHistory' = detectionHistory
             /\ localStorage' = localStorage]_vars

\* A no-plate response was handled: the display holds the no-plate message.
C1_Witness ==
    /\ plateNumber = [text |-> NoPlateText, detected |-> FALSE]
    /\ notification = NoPlateError
    /\ ~resultDetails
    /\ downloadBtn.disabled

\* The history after one entry for the plate was added to h.
WithEntry(h, item) ==
    LET all == <<item>> \o h
    IN SubSeq(all, 1, IF Len(all) > HistoryLimit THEN HistoryLimit ELSE Len(all))

\* C2: a response of status ok that carries a plate adds exactly one entry
\* for that plate to the history, and every other end of a detection (a
\* no-plate response, a response of another status, a failure) and every
\* other step leaves the history as it is.
C2_HistoryOnlyOnSuccess ==
    /\ [][\A i \in DOMAIN requests, ok \in BOOLEAN, data \in Bodies,
             processTime \in ProcessTimes :
             jsonResolved(i, ok, data, processTime)
             => IF ok /\ data.number_plate \notin NoPlateValues
                THEN /\ Len(detectionHistory') =
                            (IF Len(detectionHistory) < HistoryLimit
                             THEN Len(detectionHistory) + 1 ELSE HistoryLimit)
                     /\ detectionHistory'[1].plate = data.number_plate
                     /\ \A j \in 2..Len(detectionHistory') :
                            detectionHistory'[j] = detectionHistory[j - 1]
                ELSE detectionHistory' = detectionHistory]_vars
    /\ [][detectionHistory' # detectionHistory
          => \E i \in DOMAIN requests, data \in Bodies, processTime \in ProcessTimes :
                jsonResolved(i, TRUE, data, processTime)]_vars

\* C3: after addToHistory the history holds at most 10 entries, the new
\* entry first, the earlier entries behind it in their order, and only the
\* oldest dropped when there would be more than 10.
C3_HistoryNewestFirst ==
    [][\A i \in DOMAIN requests, ok \in BOOLEAN, data \in Bodies,
          processTime \in ProcessTimes :
          (jsonResolved(i, ok, data, processTime) /\ ShowsSuccess)
          => /\ Len(detectionHistory') <= HistoryLimit
             /\ detectionHistory' =
                  WithEntry(detectionHistory,
                            [plate |-> data.number_plate,
                             confidence |-> data.confidence,
                             processTime |-> processTime,
                             timestamp |-> clock])]_vars

\* An entry was added to a full history: the entry that was the oldest but
\* one is now the last.
C3_Witness ==
    /\ Len(detectionHistory) = HistoryLimit
    /\ detectionHistory[1].timestamp > 0
    /\ detectionHistory[2].timestamp = 0
    /\ detectionHistory[HistoryLimit].processTime = 101

\* C4: when the request of a detection settles, on every path, the plate
\* display no longer shows "Detecting..." or "Processing..." and the button
\* that started the detection is enabled.
C4_LeavesLoadingState ==
    [][\A i \in DOMAIN requests :
          Settles(i)
          => /\ plateNumber'.text \notin {DetectingText, ProcessingText}
             /\ IF requests[i].kind = "upload" THEN ~detectBtn'.disabled
                ELSE ~captureBtn'.disabled]_vars

\* A detection that failed has left its loading state.
C4_Witness ==
    /\ requests = <<>>
    /\ notification \in {UploadFailed, CaptureFailed}
    /\ plateNumber.text \in {ProcessingErrorText, CaptureFailedText}
    /\ clock > 0

\* C5: the plate text of every file downloadResult writes is a plate a
\* detection returned; with a placeholder, a progress message or a failure
\* message in the plate display no file is written.
C5_DownloadsOnlyPlates == downloadedFile \in Plates \cup {NoFile}

\* C6: a response of a status that is not ok is shown as a processing
\* failure in both handlers, whatever its body: no plate is shown as
\* detected, no entry is added, the Download button is disabled and the
\* no-plate message is not shown.
C6_StatusNotOkIsFailure ==
    [][\A i \in DOMAIN requests, data \in Bodies, processTime \in ProcessTimes :
          jsonResolved(i, FALSE, data, processTime)
          => /\ plateNumber'.text \in {ProcessingErrorText, CaptureFailedText}
             /\ ~plateNumber'.detected
             /\ detectionHistory' = detectionHistory
             /\ downloadBtn'.disabled]_vars

\* C7: when the last detection in flight settles, the plate display, the
\* result details and the Download button are those of the detection that
\* started last, also when that one settled before.
C7_LastStartedWins ==
    [][\A i \in DOMAIN requests :
          (Settles(i) /\ Len(requests) = 1 /\ latest.settled)
          => Display' = latest.display]_vars

\* C8: a detection enters flight only when its input exists (a file is
\* selected, cameraStream is not null); otherwise the handler shows a
\* warning and changes nothing else.
C8_GuardsLeaveStateAlone ==
    /\ [][Len(requests') > Len(requests)
          => IF requests'[Len(requests')].kind = "upload" THEN fileSelected
             ELSE cameraStream # Null]_vars
    /\ [][\A budget \in {MaxClock, MaxOverlap} :
             ((uploadImage(budget) /\ ~fileSelected)
              \/ (captureFromWebcam(budget) /\ cameraStream = Null))
             => /\ notification'.type = "warning"
                /\ UNCHANGED <<camera, history, fileInput, result, detectBtn,
                               captureBtn, requests, downloadedFile>>]_vars

\* uploadImage was called with no file selected.
C8_Witness ==
    /\ notification = ChooseImageWarning
    /\ ~fileSelected
    /\ ~detectBtn.disabled

C10_ConfidenceAsPercent ==
    [][\A i \in DOMAIN requests, ok \in BOOLEAN, data \in Bodies,
          processTime \in ProcessTimes :
          (jsonResolved(i, ok, data, processTime) /\ ShowsSuccess)
          => IF data.confidence = Undefined THEN confidence' = NotAvailable
             ELSE confidence' = Percent(data.confidence)]_vars

\* The detections in flight that the given handler started.
InFlightOf(kind) == {i \in DOMAIN requests : requests[i].kind = kind}

\* C11: while a detection is in flight the button that started it is
\* disabled, whatever else happens on the page (a file chosen and read,
\* clearAll, stopWebcam, initializeWebcam), so each of the two buttons has at
\* most one detection in flight.
C11_ButtonDisabledInFlight ==
    /\ InFlightOf("upload") # {} => detectBtn.disabled
    /\ InFlightOf("capture") # {} => captureBtn.disabled
    /\ Cardinality(InFlightOf("upload")) <= 1
    /\ Cardinality(InFlightOf("capture")) <= 1

\* C12: with no detection in flight the Detect button and the Capture button
\* show the labels they had before any detection started, never the loading
\* label.
C12_LabelsRestored ==
    requests = <<>>
    => /\ detectBtn.label = DetectLabel
       /\ captureBtn.label = CaptureLabel

\* C13: when stopWebcam has run no track of a stream that initializeWebcam
\* acquired is running, and at most one acquired stream is live at any time.
C13_NoStreamLeft ==
    /\ [](Cardinality(liveStreams) <= 1)
    /\ [][stopWebcam => liveStreams' = {}]_vars

\* C14: the Capture button and the Stop Camera button are enabled only while
\* cameraStream is not null.
C14_CameraButtonsNeedStream ==
    /\ ~captureBtn.disabled => cameraStream # Null
    /\ ~stopCameraBtn.disabled => cameraStream # Null

====
